---- MODULE Spec2Model ----
(***************************************************************************)
(* Model of the createClassFiles command of the C++ class creator          *)
(* extension, in its two revisions:                                        *)
(*   "ext" : src/src/extension.ts   (base folder narrowed by pickers)      *)
(*   "p0"  : src/unnamed/part_000   (fixed first workspace root)           *)
(*                                                                         *)
(* Strings are sequences of atoms.  An atom is either one of the special   *)
(* characters the code inspects (":", " ", "/", "\\", "\n") or a piece of  *)
(* text that contains none of them (a word such as "Foo", or a piece of a  *)
(* template literal).  Paths follow POSIX rules (path.sep = "/").          *)
(***************************************************************************)
EXTENDS Integers, Sequences, FiniteSets, TLC

\* ------------------------------------------------------------------ bounds
\* longest namespace input enumerated by SpecRender
MaxNsLen == 4
\* invocations of the command in one behaviour
MaxInvocations == 3
\* invocations of the command in one behaviour of SpecConcurrent
MaxOverlap == 2

\* ------------------------------------------------------- strings and paths
\* JavaScript's undefined (a dismissed prompt, an unset local)
None == <<"<undefined>">>

\* a test for undefined only, which lets the empty string through
TruthyDefinedOnly(s) == s # None

\* JavaScript truthiness of a string-or-undefined value
Truthy(s) == s # None /\ s # <<>>

\* observer: a prompt came back with no value (dismissed, or left empty)
IsNoValue(v) == v = None \/ v = <<>>

\* observer: the log of no-value prompts after prompt p answered v
Noted(log, p, v) == IF IsNoValue(v) THEN Append(log, p) ELSE log

RECURSIVE TrimStart(_)
TrimStart(s) == IF s # <<>> /\ Head(s) = " " THEN TrimStart(Tail(s)) ELSE s

RECURSIVE TrimEnd(_)
TrimEnd(s) ==
  IF s # <<>> /\ s[Len(s)] = " " THEN TrimEnd(SubSeq(s, 1, Len(s) - 1)) ELSE s

\* String.prototype.trim
Trim(s) == TrimEnd(TrimStart(s))

IsPrefix(p, s) == Len(p) <= Len(s) /\ SubSeq(s, 1, Len(p)) = p

\* String.prototype.split(sep) for a non-empty separator: leftmost,
\* non-overlapping occurrences
RECURSIVE SplitFrom(_, _, _)
SplitFrom(s, sep, acc) ==
  IF s = <<>> THEN <<acc>>
  ELSE IF IsPrefix(sep, s)
       THEN <<acc>> \o SplitFrom(SubSeq(s, Len(sep) + 1, Len(s)), sep, <<>>)
       ELSE SplitFrom(Tail(s), sep, Append(acc, Head(s)))

Split(s, sep) == SplitFrom(s, sep, <<>>)

\* Array.prototype.join(sep) on an array of strings
RECURSIVE Join(_, _)
Join(parts, sep) ==
  IF parts = <<>> THEN <<>>
  ELSE IF Len(parts) = 1 THEN parts[1]
  ELSE parts[1] \o sep \o Join(Tail(parts), sep)

\* Array.prototype.filter(s => s.length > 0)
RECURSIVE FilterNonEmpty(_)
FilterNonEmpty(parts) ==
  IF parts = <<>> THEN <<>>
  ELSE IF Head(parts) # <<>> THEN <<Head(parts)>> \o FilterNonEmpty(Tail(parts))
  ELSE FilterNonEmpty(Tail(parts))

\* posix.normalize on the segments of an absolute path
RECURSIVE NormalizeFrom(_, _)
NormalizeFrom(segs, acc) ==
  IF segs = <<>> THEN acc
  ELSE LET h == Head(segs) IN
       IF h = <<>> \/ h = <<".">> THEN NormalizeFrom(Tail(segs), acc)
       ELSE IF h = <<"..">>
            THEN NormalizeFrom(Tail(segs),
                   IF acc = <<>> THEN acc ELSE SubSeq(acc, 1, Len(acc) - 1))
            ELSE NormalizeFrom(Tail(segs), Append(acc, h))

\* path.join(wsPath, sub): an absolute path (sequence of segments) joined
\* with a relative path given as a string
PathJoin(base, sub) == NormalizeFrom(base \o Split(sub, <<"/">>), <<>>)

\* vscode.Uri.joinPath(base, ...parts): every part may hold "/" itself
RECURSIVE SplitAll(_)
SplitAll(parts) ==
  IF parts = <<>> THEN <<>>
  ELSE Split(Head(parts), <<"/">>) \o SplitAll(Tail(parts))

JoinPath(base, parts) == NormalizeFrom(base \o SplitAll(parts), <<>>)

RECURSIVE CommonPrefixLen(_, _)
CommonPrefixLen(a, b) ==
  IF a = <<>> \/ b = <<>> \/ Head(a) # Head(b) THEN 0
  ELSE 1 + CommonPrefixLen(Tail(a), Tail(b))

\* path.relative(from, to) on absolute paths, as a string
PathRelative(from, to) ==
  LET k == CommonPrefixLen(from, to)
      ups == [i \in 1..(Len(from) - k) |-> <<"..">>]
  IN Join(ups \o SubSeq(to, k + 1, Len(to)), <<"/">>)

\* Buffer.from(text, 'utf8') and Buffer.toString('utf8')
Utf8Encode(s) == [i \in 1..Len(s) |-> [utf8 |-> s[i]]]
Utf8Decode(b) == [i \in 1..Len(b) |-> b[i].utf8]

\* --------------------------------------------------------------- templates
COPYRIGHT_TXT == <<"COPYRIGHT.txt">>

\* the notice template literal of getOrCreateCopyrightNotice
Notice(a, p) ==
  <<"/*", "\n", " * Copyright (c) 2025 ">> \o a \o
  <<"\n", " * All rights reserved.", "\n", " *", "\n",
    " * This file is part of ">> \o p \o
  <<".", "\n",
    " * Unauthorized copying of this file, via any medium is strictly prohibited.",
    "\n", " * Proprietary and confidential.", "\n", " */", "\n">>

\* the same without the filter of empty segments
NsPartsUnfiltered(ns) ==
  LET parts == Split(ns, <<":", ":">>)
  IN [i \in 1..Len(parts) |-> Trim(parts[i])]

\* nsInput.split('::').map(s => s.trim()).filter(s => s.length > 0)
NsParts(ns) ==
  LET parts == Split(ns, <<":", ":">>)
  IN FilterNonEmpty([i \in 1..Len(parts) |-> Trim(parts[i])])

\* the guard on the namespace input and nsParts, or the empty array
NsPartsOf(ns) ==
  IF Truthy(ns) /\ Len(Trim(ns)) > 0 THEN NsParts(ns) ELSE <<>>

\* nsParts.map(ns => `namespace ${ns} {`).join('\n')
OpenNamespaces(parts) ==
  Join([i \in 1..Len(parts) |-> <<"namespace ">> \o parts[i] \o <<" {">>],
       <<"\n">>)

\* nsParts.map(() => '}').join('\n')
CloseNamespaces(parts) ==
  Join([i \in 1..Len(parts) |-> <<"}">>], <<"\n">>)

\* the class declaration appended to headerContent
ClassBlock(c) ==
  <<"class ">> \o c \o <<" {", "\n", "public:", "\n", "    ">> \o c \o
  <<"();", "\n", "    ~">> \o c \o
  <<"();", "\n", "\n", "private:", "\n", "    // Members...", "\n", "};",
    "\n", "\n">>

\* the constructor and destructor definitions appended to sourceContent
DefinitionsBlock(c) ==
  c \o <<"::">> \o c \o
  <<"() {", "\n", "    // Constructor implementation", "\n", "}", "\n", "\n">>
  \o c \o <<"::~">> \o c \o
  <<"() {", "\n", "    // Destructor implementation", "\n", "}", "\n", "\n">>

\* headerContent: "ext" puts #pragma once before the namespaces and two
\* newlines after the notice, "p0" one newline and the namespaces first
HeaderContent(r, notice, open, close, c) ==
  IF r = "ext"
  THEN notice \o <<"\n", "\n">> \o <<"#pragma once", "\n", "\n">>
       \o (IF open # <<>> THEN open \o <<"\n", "\n">> ELSE <<>>)
       \o ClassBlock(c)
       \o (IF close # <<>> THEN close \o <<"\n">> ELSE <<>>)
  ELSE notice \o <<"\n">>
       \o (IF open # <<>> THEN open \o <<"\n", "\n">> ELSE <<>>)
       \o <<"#pragma once", "\n", "\n">>
       \o ClassBlock(c)
       \o (IF close # <<>> THEN close \o <<"\n">> ELSE <<>>)

SourceContent(r, notice, directive, open, close, c) ==
  notice \o (IF r = "ext" THEN <<"\n", "\n">> ELSE <<"\n">>)
  \o directive \o <<"\n", "\n">>
  \o (IF open # <<>> THEN open \o <<"\n", "\n">> ELSE <<>>)
  \o DefinitionsBlock(c)
  \o (IF close # <<>> THEN close \o <<"\n">> ELSE <<>>)

\* `#include "${className}.hpp"`
PlainInclude(c) == <<"#include \"">> \o c \o <<".hpp\"">>

\* `#include "${folder}/${className}.hpp"` when folder is non-empty
FolderInclude(folder, c) ==
  IF folder # <<>>
  THEN <<"#include \"">> \o folder \o <<"/">> \o c \o <<".hpp\"">>
  ELSE PlainInclude(c)

\* /^include[\/\\]/.test(s)
StartsWithIncludeSep(s) ==
  Len(s) >= 2 /\ s[1] = "include" /\ s[2] \in {"/", "\\"}

\* "ext": strip a leading "include/" from the header subfolder
IncludeDirectiveExt(headerSub, c) ==
  LET directiveFolder ==
        IF StartsWithIncludeSep(headerSub)
        THEN SubSeq(headerSub, 3, Len(headerSub)) ELSE headerSub
  IN FolderInclude(directiveFolder, c)

\* "p0": relative path from the source folder to the header folder
IncludeDirectiveP0(wsPath, headerFolder, sourceFolder, c) ==
  LET headerFolderPath == PathJoin(wsPath, headerFolder)
      sourceFolderPath == PathJoin(wsPath, sourceFolder)
  IN FolderInclude(PathRelative(sourceFolderPath, headerFolderPath), c)

\* "ext": headerSubfolder.replace(/^include[\/\\]?/, 'src/'), or 'src' when
\* the replacement changed nothing
DefaultSourceSubfolder(headerSub) ==
  LET replaced ==
        IF headerSub # <<>> /\ headerSub[1] = "include"
        THEN IF Len(headerSub) >= 2 /\ headerSub[2] \in {"/", "\\"}
             THEN <<"src", "/">> \o SubSeq(headerSub, 3, Len(headerSub))
             ELSE <<"src", "/">> \o Tail(headerSub)
        ELSE headerSub
  IN IF replaced = headerSub THEN <<"src">> ELSE replaced

\* ------------------------------------------------------------- environment
\* workspace folders (vscode.workspace.workspaceFolders entries)
RootA == [name |-> "proj", uri |-> << <<"x">>, <<"proj">> >>]
RootB == [name |-> "lib",  uri |-> << <<"x">>, <<"lib">> >>]
RootC == [name |-> "proj", uri |-> << <<"y">>, <<"proj">> >>]

WorkspaceConfigs == {<<>>, <<RootA>>, <<RootA, RootB>>, <<RootA, RootC>>}

\* what readDirectory lists in a folder: [name, FileType] entries
DirEntries(dir) ==
  IF dir = RootA.uri
  THEN << [name |-> <<"sub">>, type |-> "Directory"],
          [name |-> <<"notes.txt">>, type |-> "File"] >>
  ELSE IF dir = RootC.uri
  THEN << [name |-> <<"(Use current folder)">>, type |-> "Directory"] >>
  ELSE <<>>

\* a notice somebody put into COPYRIGHT.txt beforehand
CustomNotice == <<"// custom notice", "\n">>

NoFiles == [u \in {} |-> <<>>]

\* answers the user can give to the prompts
Authors == {None, <<>>, <<"Jane">>, <<"Bob">>}
ProjectNames == {None, <<>>, <<"Nebula">>}
ClassNames == {None, <<>>, <<"Foo">>}
NsInputs == {None, <<>>, <<" ">>, <<"a", ":", ":", "b">>}
NsAlphabet == {"a", "b", ":", " "}
NsStrings == UNION {[1..n -> NsAlphabet] : n \in 0..MaxNsLen}
HeaderFolderInputs ==
  {None, <<>>, <<" ">>, <<"include">>, <<"include", "/", "math">>}
SourceFolderInputs == {None, <<"src">>}
SameFolderInputs == {None, <<>>, <<"sub">>}

SameFolderLabel(r) ==
  IF r = "ext" THEN "Same Folder" ELSE "Place files in the same folder"
SeparateFoldersLabel(r) ==
  IF r = "ext" THEN "Separate Folders"
  ELSE "Place header and source in separate folders"

UseCurrentFolder == <<"(Use current folder)">>

\* ------------------------------------------------------------------- state
VARIABLES
  rev,              \* which revision of the command is installed
  workspaceFolders, \* vscode.workspace.workspaceFolders
  files,            \* the COPYRIGHT.txt files on disk: uri -> bytes
  pc,               \* the await the invocation is suspended at, or "idle"
  invocations,      \* invocations started so far
  root,             \* selectSubFolder's root
  items,            \* selectSubFolder's quick pick items
  baseFolder,       \* baseFolder ("ext") / workspaceFolder ("p0")
  copyrightUri,     \* copyrightUri / copyrightFile
  author,
  projectName,
  copyrightNotice,
  className,
  nsInput,
  openNamespaces,
  closeNamespaces,
  placementOption,
  headerSubfolder,  \* headerSubfolder ("ext") / headerFolderInput ("p0")
  sourceSubfolder,  \* sourceSubfolder ("ext") / sourceFolder ("p0")
  includeDirective,
  headerContent,
  sourceContent,
  headerUri,
  sourceUri,
  prompts,          \* observer: prompts shown by this invocation, in order
  noValue,          \* observer: prompts that returned undefined or ""
  writes,           \* observer: writeFile calls of this invocation, in order
  messages,         \* observer: messages shown by this invocation, in order
  fault,            \* observer: the error this invocation ended in, if any
  created,          \* observer: uri -> the notice returned by the call that
                    \* created COPYRIGHT.txt there when it was absent
  chosen,           \* observer: the workspace folder and the picker entry
                    \* the user selected in this invocation
  suspended,        \* the invocations waiting at an await while another
                    \* one runs: their locals and observers
  hiddenMark,       \* the prompts of this invocation at the moment its open
                    \* prompt was hidden by a prompt of another invocation
  turnStart         \* the prompts of this invocation when it last got the
                    \* event loop

\* what no step of an invocation changes: the installed revision, the
\* workspace and the other invocations on the event loop
envVars == <<rev, workspaceFolders, suspended, hiddenMark, turnStart>>
folderVars == <<root, items, baseFolder, copyrightUri, chosen>>
noticeVars == <<author, projectName, copyrightNotice>>
inputVars == <<className, nsInput, openNamespaces, closeNamespaces,
               placementOption, headerSubfolder, sourceSubfolder>>
renderVars == <<includeDirective, headerContent, sourceContent,
                headerUri, sourceUri>>
vars == <<rev, workspaceFolders, files, pc, invocations, root, items,
          baseFolder, copyrightUri, author, projectName, copyrightNotice,
          className, nsInput, openNamespaces, closeNamespaces,
          placementOption, headerSubfolder, sourceSubfolder,
          includeDirective, headerContent, sourceContent, headerUri,
          sourceUri, prompts, noValue, writes, messages, fault, created,
          chosen, suspended, hiddenMark, turnStart>>

ErrorMessage(text) == [kind |-> "error", text |-> text]
InformationMessage(text) == [kind |-> "info", text |-> text]

\* a single invocation has the event loop to itself
NoOtherInvocation == suspended = <<>> /\ hiddenMark = None /\ turnStart = <<>>

\* observer: nothing selected yet
NoChoice == [root |-> None, entry |-> None]

\* the locals of an invocation that has not assigned them yet
FreshLocals ==
  /\ chosen = NoChoice
  /\ root = None /\ items = <<>> /\ baseFolder = None /\ copyrightUri = None
  /\ author = None /\ projectName = None /\ copyrightNotice = None
  /\ className = None /\ nsInput = None
  /\ openNamespaces = <<>> /\ closeNamespaces = <<>>
  /\ placementOption = "" /\ headerSubfolder = None /\ sourceSubfolder = None
  /\ includeDirective = None /\ headerContent = None /\ sourceContent = None
  /\ headerUri = None /\ sourceUri = None

Init ==
  /\ rev \in {"ext", "p0"}
  /\ workspaceFolders \in WorkspaceConfigs
  /\ files \in {NoFiles,
                JoinPath(RootA.uri, <<COPYRIGHT_TXT>>) :> Utf8Encode(CustomNotice)}
  /\ pc = "idle"
  /\ invocations = 0
  /\ FreshLocals
  /\ prompts = <<>> /\ noValue = <<>> /\ writes = <<>> /\ messages = <<>>
  /\ fault = "none"
  /\ created = NoFiles
  /\ NoOtherInvocation

\* getOrCreateCopyrightNotice is entered: its first await is fs.stat
EnterGetOrCreate(folder) ==
  /\ baseFolder' = folder
  /\ copyrightUri' = JoinPath(folder, <<COPYRIGHT_TXT>>)
  /\ pc' = "stat"

\* the command handler starts: selectBaseFolder up to its first await
\* ("ext"), the workspace check ("p0")
Start ==
  /\ invocations < MaxInvocations
  /\ invocations' = invocations + 1
  /\ author' = None /\ projectName' = None /\ copyrightNotice' = None
  /\ className' = None /\ nsInput' = None
  /\ openNamespaces' = <<>> /\ closeNamespaces' = <<>>
  /\ placementOption' = "" /\ headerSubfolder' = None
  /\ sourceSubfolder' = None
  /\ includeDirective' = None /\ headerContent' = None
  /\ sourceContent' = None /\ headerUri' = None /\ sourceUri' = None
  /\ items' = <<>>
  /\ noValue' = <<>> /\ writes' = <<>>
  /\ IF Len(workspaceFolders) = 0
     THEN /\ messages' = <<ErrorMessage("No workspace folder open.")>>
          /\ fault' = "NoWorkspace"
          /\ pc' = "idle"
          /\ root' = None /\ baseFolder' = None /\ copyrightUri' = None
          /\ prompts' = <<>>
     ELSE /\ messages' = <<>>
          /\ fault' = "none"
          /\ IF rev = "p0"
             THEN /\ EnterGetOrCreate(workspaceFolders[1].uri)
                  /\ root' = None
                  /\ prompts' = <<>>
             ELSE /\ baseFolder' = None /\ copyrightUri' = None
                  /\ IF Len(workspaceFolders) = 1
                     THEN /\ root' = workspaceFolders[1].uri
                          /\ pc' = "readDirectory"
                          /\ prompts' = <<>>
                     ELSE /\ root' = None
                          /\ pc' = "pickWorkspaceFolder"
                          /\ prompts' = <<"workspaceFolder">>
  /\ chosen' = IF rev = "ext" /\ Len(workspaceFolders) = 1
               THEN [NoChoice EXCEPT !.root = workspaceFolders[1].uri]
               ELSE NoChoice

\* the command is triggered while no invocation is in progress
Invoke ==
  /\ pc = "idle"
  /\ Start
  /\ UNCHANGED <<envVars, files, created>>

\* the handler returns: control is back at idle
Return == pc' = "idle"

\* folders.find(folder => folder.name === selectedName): the first match
FirstNamed(folders, name) ==
  folders[CHOOSE k \in 1..Len(folders) :
            /\ folders[k].name = name
            /\ \A j \in 1..(k - 1) : folders[j].name # name]

\* selectBaseFolder: the user selects entry n of the workspace folder pick
\* (0: dismisses it); showQuickPick resolves to the name shown there
PickWorkspaceFolder ==
  /\ pc = "pickWorkspaceFolder"
  /\ \E n \in 0..Len(workspaceFolders) :
       LET selectedName == IF n = 0 THEN "" ELSE workspaceFolders[n].name IN
       IF selectedName = ""
       THEN /\ Return
            /\ noValue' = Append(noValue, "workspaceFolder")
            /\ root' = root
            /\ chosen' = chosen
       ELSE /\ root' = FirstNamed(workspaceFolders, selectedName).uri
            /\ chosen' = [chosen EXCEPT !.root = workspaceFolders[n].uri]
            /\ pc' = "readDirectory"
            /\ noValue' = noValue
  /\ UNCHANGED <<envVars, files, created, invocations, items, baseFolder,
                 copyrightUri, noticeVars, inputVars, renderVars, prompts,
                 writes, messages, fault>>

\* getSubdirectories(root) and the items of selectSubFolder
SubFolderItems(r) ==
  LET entries == DirEntries(r)
      dirs == SelectSeq(entries, LAMBDA e : e.type = "Directory")
      subdirs == [i \in 1..Len(dirs) |-> JoinPath(r, <<dirs[i].name>>)]
  IN <<[label |-> UseCurrentFolder, uri |-> r]>> \o
     [i \in 1..Len(subdirs) |->
        [label |-> subdirs[i][Len(subdirs[i])], uri |-> subdirs[i]]]

\* selectSubFolder: readDirectory resolves or rejects
ReadDirectory ==
  /\ pc = "readDirectory"
  /\ \E ok \in BOOLEAN :
       IF ok
       THEN /\ items' = SubFolderItems(root)
            /\ pc' = "pickSubFolder"
            /\ prompts' = Append(prompts, "subFolder")
            /\ UNCHANGED <<messages, fault>>
       ELSE /\ messages' =
                 Append(messages, ErrorMessage("Failed to read subdirectories"))
            /\ fault' = "DirectoryList"
            /\ Return
            /\ UNCHANGED <<items, prompts>>
  /\ UNCHANGED <<envVars, files, created, invocations, root, baseFolder,
                 copyrightUri, chosen, noticeVars, inputVars, renderVars,
                 noValue, writes>>

\* items.find(item => item.label === selected): the first match
FirstLabelled(list, label) ==
  list[CHOOSE k \in 1..Len(list) :
         /\ list[k].label = label
         /\ \A j \in 1..(k - 1) : list[j].label # label]

\* selectSubFolder: the user selects entry n of the subfolder pick (0:
\* dismisses it); showQuickPick resolves to the label shown there and the
\* handler goes on into getOrCreateCopyrightNotice(baseFolder)
PickSubFolder ==
  /\ pc = "pickSubFolder"
  /\ \E n \in 0..Len(items) :
       LET selected == IF n = 0 THEN None ELSE items[n].label IN
       IF selected = None
       THEN /\ Return
            /\ noValue' = Append(noValue, "subFolder")
            /\ UNCHANGED <<baseFolder, copyrightUri, chosen>>
       ELSE /\ EnterGetOrCreate(FirstLabelled(items, selected).uri)
            /\ chosen' = [chosen EXCEPT !.entry = items[n].uri]
            /\ noValue' = noValue
  /\ UNCHANGED <<envVars, files, created, invocations, root, items, noticeVars,
                 inputVars, renderVars, prompts, writes, messages, fault>>

\* ---------------------------------------------- getOrCreateCopyrightNotice
\* the catch of the handler around getOrCreateCopyrightNotice: "ext" shows
\* error.message, "p0" returns silently
CaughtByHandler(shown, text) ==
  /\ messages' = IF rev = "ext"
                 THEN shown \o <<ErrorMessage(text)>>
                 ELSE shown
  /\ Return

\* the call returns a notice: the handler prompts for the class name
ReturnNotice(text) ==
  /\ copyrightNotice' = text
  /\ pc' = "className"
  /\ prompts' = Append(prompts, "className")

\* fs.stat(copyrightUri) resolves or rejects; a rejection enters the catch
\* block, which prompts for the author
Stat ==
  /\ pc = "stat"
  /\ \E ok \in IF copyrightUri \in DOMAIN files THEN BOOLEAN ELSE {FALSE} :
       IF ok
       THEN /\ pc' = "readFile"
            /\ prompts' = prompts
       ELSE /\ pc' = "author"
            /\ prompts' = Append(prompts, "author")
  /\ UNCHANGED <<envVars, files, created, invocations, folderVars, noticeVars,
                 inputVars, renderVars, noValue, writes, messages, fault>>

\* fs.readFile(copyrightUri) resolves or rejects; a rejection enters the
\* same catch block
ReadFile ==
  /\ pc = "readFile"
  /\ \E ok \in IF copyrightUri \in DOMAIN files THEN BOOLEAN ELSE {FALSE} :
       IF ok
       THEN ReturnNotice(Utf8Decode(files[copyrightUri]))
       ELSE /\ pc' = "author"
            /\ prompts' = Append(prompts, "author")
            /\ copyrightNotice' = copyrightNotice
  /\ UNCHANGED <<envVars, files, created, invocations, folderVars, author, projectName,
                 inputVars, renderVars, noValue, writes, messages, fault>>

\* the author input box resolves
AuthorInput ==
  /\ pc = "author"
  /\ \E a \in Authors :
       /\ noValue' = Noted(noValue, "author", a)
       /\ IF ~Truthy(a)
          THEN /\ CaughtByHandler(
                    Append(messages, ErrorMessage("Author name is required.")),
                    "Author name is required.")
               /\ fault' = "MissingAuthor"
               /\ UNCHANGED <<author, prompts>>
          ELSE /\ author' = a
               /\ pc' = "projectName"
               /\ prompts' = Append(prompts, "projectName")
               /\ UNCHANGED <<messages, fault>>
  /\ UNCHANGED <<envVars, files, created, invocations, folderVars, projectName,
                 copyrightNotice, inputVars, renderVars, writes>>

\* the project name input box resolves
ProjectNameInput ==
  /\ pc = "projectName"
  /\ \E p \in ProjectNames :
       /\ noValue' = Noted(noValue, "projectName", p)
       /\ IF ~Truthy(p)
          THEN /\ CaughtByHandler(
                    Append(messages, ErrorMessage("Project name is required.")),
                    "Project name is required.")
               /\ fault' = "MissingProjectName"
               /\ UNCHANGED projectName
          ELSE /\ projectName' = p
               /\ pc' = "writeCopyright"
               /\ UNCHANGED <<messages, fault>>
  /\ UNCHANGED <<envVars, files, created, invocations, folderVars, author,
                 copyrightNotice, inputVars, renderVars, prompts, writes>>

\* fs.writeFile(copyrightUri, notice) resolves or rejects; a rejection
\* leaves the function as an exception
WriteCopyright ==
  /\ pc = "writeCopyright"
  /\ LET notice == Notice(author, projectName) IN
     \E ok \in BOOLEAN :
       /\ writes' = Append(writes, [uri |-> copyrightUri, ok |-> ok])
       /\ IF ok
          THEN /\ files' = (copyrightUri :> Utf8Encode(notice)) @@ files
               /\ created' = IF copyrightUri \in DOMAIN files THEN created
                              ELSE (copyrightUri :> notice) @@ created
               /\ ReturnNotice(notice)
               /\ UNCHANGED <<messages, fault>>
          ELSE /\ CaughtByHandler(messages, "Unable to write file")
               /\ fault' = "CopyrightWrite"
               /\ UNCHANGED <<files, created, copyrightNotice, prompts>>
  /\ UNCHANGED <<envVars, invocations, folderVars, author, projectName,
                 inputVars, renderVars, noValue>>

\* ------------------------------------------------------ the command inputs
\* the class name input box resolves
ClassNameInput ==
  /\ pc = "className"
  /\ \E c \in ClassNames :
       /\ noValue' = Noted(noValue, "className", c)
       /\ IF ~Truthy(c)
          THEN /\ messages' =
                    Append(messages, ErrorMessage("Class name is required."))
               /\ fault' = "MissingClassName"
               /\ Return
               /\ UNCHANGED <<className, prompts>>
          ELSE /\ className' = c
               /\ pc' = "namespace"
               /\ prompts' = Append(prompts, "namespace")
               /\ UNCHANGED <<messages, fault>>
  /\ UNCHANGED <<envVars, files, created, invocations, folderVars, noticeVars,
                 nsInput, openNamespaces, closeNamespaces, placementOption,
                 headerSubfolder, sourceSubfolder, renderVars, writes>>

\* the namespace input box resolves with an answer from S; the namespace
\* blocks are built and the placement pick is shown
NamespaceInputFrom(S) ==
  /\ pc = "namespace"
  /\ \E ns \in S :
       /\ nsInput' = ns
       /\ openNamespaces' = OpenNamespaces(NsPartsOf(ns))
       /\ closeNamespaces' = CloseNamespaces(NsPartsOf(ns))
       /\ noValue' = Noted(noValue, "namespace", ns)
  /\ pc' = "placement"
  /\ prompts' = Append(prompts, "placement")
  /\ UNCHANGED <<envVars, files, created, invocations, folderVars, noticeVars,
                 className, placementOption, headerSubfolder, sourceSubfolder,
                 renderVars, writes, messages, fault>>

NamespaceInput == NamespaceInputFrom(NsInputs)

\* a placement pick that treats a dismissal as "same folder"
PlacementPickDefaulting ==
  /\ pc = "placement"
  /\ \E option \in {SameFolderLabel(rev), SeparateFoldersLabel(rev), ""} :
       /\ placementOption' = option
       /\ noValue' = IF option = "" THEN Append(noValue, "placement")
                     ELSE noValue
       /\ IF option = SeparateFoldersLabel(rev)
          THEN /\ pc' = "headerFolder"
               /\ prompts' = Append(prompts, "headerFolder")
          ELSE /\ pc' = "sameFolder"
               /\ prompts' = Append(prompts, "sameFolder")
  /\ UNCHANGED <<envVars, files, created, invocations, folderVars, noticeVars,
                 className, nsInput, openNamespaces, closeNamespaces,
                 headerSubfolder, sourceSubfolder, renderVars, writes,
                 messages, fault>>

\* the placement quick pick resolves
PlacementPick ==
  /\ pc = "placement"
  /\ \E option \in {SameFolderLabel(rev), SeparateFoldersLabel(rev), ""} :
       /\ placementOption' = option
       /\ IF option = ""
          THEN /\ Return
               /\ noValue' = Append(noValue, "placement")
               /\ prompts' = prompts
          ELSE /\ noValue' = noValue
               /\ IF option = SeparateFoldersLabel(rev)
                  THEN /\ pc' = "headerFolder"
                       /\ prompts' = Append(prompts, "headerFolder")
                  ELSE /\ pc' = "sameFolder"
                       /\ prompts' = Append(prompts, "sameFolder")
  /\ UNCHANGED <<envVars, files, created, invocations, folderVars, noticeVars,
                 className, nsInput, openNamespaces, closeNamespaces,
                 headerSubfolder, sourceSubfolder, renderVars, writes,
                 messages, fault>>

\* the header subfolder input box resolves: "ext" returns on no value,
\* "p0" goes on to the source subfolder prompt whatever the answer
HeaderFolderInput ==
  /\ pc = "headerFolder"
  /\ \E h \in HeaderFolderInputs :
       /\ noValue' = Noted(noValue, "headerFolder", h)
       /\ IF rev = "ext" /\ ~Truthy(h)
          THEN /\ Return
               /\ UNCHANGED <<headerSubfolder, prompts>>
          ELSE /\ headerSubfolder' = IF rev = "ext" THEN Trim(h) ELSE h
               /\ pc' = "sourceFolder"
               /\ prompts' = Append(prompts, "sourceFolder")
  /\ UNCHANGED <<envVars, files, created, invocations, folderVars, noticeVars,
                 className, nsInput, openNamespaces, closeNamespaces,
                 placementOption, sourceSubfolder, renderVars, writes,
                 messages, fault>>

HppName(c) == c \o <<".hpp">>
CppName(c) == c \o <<".cpp">>

\* the contents and uris are computed and the header write is issued
Render(directive, hUri, sUri) ==
  /\ includeDirective' = directive
  /\ headerContent' = HeaderContent(rev, copyrightNotice, openNamespaces,
                                    closeNamespaces, className)
  /\ sourceContent' = SourceContent(rev, copyrightNotice, directive,
                                    openNamespaces, closeNamespaces, className)
  /\ headerUri' = hUri
  /\ sourceUri' = sUri
  /\ pc' = "writeHeader"

\* the source subfolder input box resolves ("Separate Folders" branch)
SourceFolderInput ==
  /\ pc = "sourceFolder"
  /\ \E s \in SourceFolderInputs \cup
              (IF rev = "ext" THEN {DefaultSourceSubfolder(headerSubfolder)}
               ELSE {}) :
       /\ noValue' = Noted(noValue, "sourceFolder", s)
       /\ IF rev = "ext"
          THEN IF ~Truthy(s)
               THEN /\ Return
                    /\ UNCHANGED <<headerSubfolder, sourceSubfolder,
                                   renderVars>>
               ELSE /\ sourceSubfolder' = Trim(s)
                    /\ UNCHANGED headerSubfolder
                    /\ Render(IncludeDirectiveExt(headerSubfolder, className),
                              JoinPath(baseFolder,
                                       Split(headerSubfolder, <<"/">>) \o
                                       <<HppName(className)>>),
                              JoinPath(baseFolder,
                                       Split(Trim(s), <<"/">>) \o
                                       <<CppName(className)>>))
          ELSE LET headerFolder == IF Truthy(headerSubfolder)
                                   THEN Trim(headerSubfolder)
                                   ELSE <<"include">>
                   sourceFolder == IF Truthy(s) THEN Trim(s) ELSE <<"src">>
               IN /\ headerSubfolder' = headerFolder
                  /\ sourceSubfolder' = sourceFolder
                  /\ Render(IncludeDirectiveP0(baseFolder, headerFolder,
                                               sourceFolder, className),
                            JoinPath(baseFolder,
                                     <<headerFolder, HppName(className)>>),
                            JoinPath(baseFolder,
                                     <<sourceFolder, CppName(className)>>))
  /\ UNCHANGED <<envVars, files, created, invocations, folderVars, noticeVars,
                 className, nsInput, openNamespaces, closeNamespaces,
                 placementOption, prompts, writes, messages, fault>>

\* the folder input box of the same-folder branch resolves
SameFolderInput ==
  /\ pc = "sameFolder"
  /\ \E f \in SameFolderInputs :
       LET targetSubfolder == IF Truthy(f) THEN Trim(f) ELSE <<>>
           targetUri == IF targetSubfolder # <<>>
                        THEN JoinPath(baseFolder,
                                      IF rev = "ext"
                                      THEN Split(targetSubfolder, <<"/">>)
                                      ELSE <<targetSubfolder>>)
                        ELSE baseFolder
       IN /\ noValue' = Noted(noValue, "sameFolder", f)
          /\ Render(PlainInclude(className),
                    JoinPath(targetUri, <<HppName(className)>>),
                    JoinPath(targetUri, <<CppName(className)>>))
  /\ UNCHANGED <<envVars, files, created, invocations, folderVars, noticeVars,
                 inputVars, prompts, writes, messages, fault>>

\* ------------------------------------------------------------- Write stage
\* a header write in a try block of its own: the source write follows
\* whatever the outcome
WriteHeaderOwnTry ==
  /\ pc = "writeHeader"
  /\ \E ok \in BOOLEAN :
       /\ writes' = Append(writes, [uri |-> headerUri, ok |-> ok])
       /\ pc' = "writeSource"
       /\ IF ok
          THEN UNCHANGED <<messages, fault>>
          ELSE /\ messages' =
                    Append(messages, ErrorMessage("Error creating files"))
               /\ fault' = "Write"
  /\ UNCHANGED <<envVars, files, created, invocations, folderVars, noticeVars,
                 inputVars, renderVars, prompts, noValue>>

\* writeFile(headerUri) resolves or rejects; a rejection jumps to the catch
\* block of the try that holds both writes
WriteHeader ==
  /\ pc = "writeHeader"
  /\ \E ok \in BOOLEAN :
       /\ writes' = Append(writes, [uri |-> headerUri, ok |-> ok])
       /\ IF ok
          THEN /\ pc' = "writeSource"
               /\ UNCHANGED <<messages, fault>>
          ELSE /\ messages' =
                    Append(messages, ErrorMessage("Error creating files"))
               /\ fault' = "Write"
               /\ Return
  /\ UNCHANGED <<envVars, files, created, invocations, folderVars, noticeVars,
                 inputVars, renderVars, prompts, noValue>>

\* a source write followed by the success message outside the try block:
\* "Created" is shown whatever the outcome
WriteSourceThenCreated ==
  /\ pc = "writeSource"
  /\ \E ok \in BOOLEAN :
       /\ writes' = Append(writes, [uri |-> sourceUri, ok |-> ok])
       /\ IF ok
          THEN /\ messages' =
                    Append(messages, InformationMessage("Created"))
               /\ fault' = fault
          ELSE /\ messages' =
                    messages \o <<ErrorMessage("Error creating files"),
                                  InformationMessage("Created")>>
               /\ fault' = "Write"
  /\ Return
  /\ UNCHANGED <<envVars, files, created, invocations, folderVars, noticeVars,
                 inputVars, renderVars, prompts, noValue>>

\* writeFile(sourceUri) resolves or rejects
WriteSource ==
  /\ pc = "writeSource"
  /\ \E ok \in BOOLEAN :
       /\ writes' = Append(writes, [uri |-> sourceUri, ok |-> ok])
       /\ IF ok
          THEN /\ messages' =
                    Append(messages, InformationMessage("Created"))
               /\ fault' = fault
          ELSE /\ messages' =
                    Append(messages, ErrorMessage("Error creating files"))
               /\ fault' = "Write"
  /\ Return
  /\ UNCHANGED <<envVars, files, created, invocations, folderVars, noticeVars,
                 inputVars, renderVars, prompts, noValue>>

\* ---------------------------------------------------------- specifications
Next ==
  \/ Invoke
  \/ PickWorkspaceFolder
  \/ ReadDirectory
  \/ PickSubFolder
  \/ Stat
  \/ ReadFile
  \/ AuthorInput
  \/ ProjectNameInput
  \/ WriteCopyright
  \/ ClassNameInput
  \/ NamespaceInput
  \/ PlacementPick
  \/ HeaderFolderInput
  \/ SourceFolderInput
  \/ SameFolderInput
  \/ WriteHeader
  \/ WriteSource

Spec == Init /\ [][Next]_vars

\* ------------------------------------------------- overlapping invocations
\* The handler is an async function registered without any guard against
\* re-entry: while one invocation waits at an await the command can be
\* triggered again, and the continuations of the two invocations then run
\* in any order.  At most one other invocation is kept waiting.  The quick
\* input of the host shows one prompt at a time: the prompt of one
\* invocation hides the open prompt of the other, which resolves to
\* undefined.

\* the locals and observers of the invocation that has the event loop
Context ==
  [pc |-> pc, root |-> root, items |-> items, baseFolder |-> baseFolder,
   copyrightUri |-> copyrightUri, author |-> author,
   projectName |-> projectName, copyrightNotice |-> copyrightNotice,
   className |-> className, nsInput |-> nsInput,
   openNamespaces |-> openNamespaces, closeNamespaces |-> closeNamespaces,
   placementOption |-> placementOption, headerSubfolder |-> headerSubfolder,
   sourceSubfolder |-> sourceSubfolder, includeDirective |-> includeDirective,
   headerContent |-> headerContent, sourceContent |-> sourceContent,
   headerUri |-> headerUri, sourceUri |-> sourceUri, prompts |-> prompts,
   noValue |-> noValue, writes |-> writes, messages |-> messages,
   fault |-> fault, chosen |-> chosen, hiddenMark |-> hiddenMark]

\* a waiting invocation gets the event loop back
Restore(c) ==
  /\ pc' = c.pc /\ root' = c.root /\ items' = c.items
  /\ baseFolder' = c.baseFolder /\ copyrightUri' = c.copyrightUri
  /\ author' = c.author /\ projectName' = c.projectName
  /\ copyrightNotice' = c.copyrightNotice /\ className' = c.className
  /\ nsInput' = c.nsInput /\ openNamespaces' = c.openNamespaces
  /\ closeNamespaces' = c.closeNamespaces
  /\ placementOption' = c.placementOption
  /\ headerSubfolder' = c.headerSubfolder
  /\ sourceSubfolder' = c.sourceSubfolder
  /\ includeDirective' = c.includeDirective
  /\ headerContent' = c.headerContent /\ sourceContent' = c.sourceContent
  /\ headerUri' = c.headerUri /\ sourceUri' = c.sourceUri
  /\ prompts' = c.prompts /\ noValue' = c.noValue /\ writes' = c.writes
  /\ messages' = c.messages /\ fault' = c.fault /\ chosen' = c.chosen

\* the awaits that wait for the user
IsPrompt(p) ==
  p \in {"pickWorkspaceFolder", "pickSubFolder", "author", "projectName",
         "className", "namespace", "placement", "headerFolder",
         "sourceFolder", "sameFolder"}

\* the open prompt of the running invocation has been hidden
Hidden == IsPrompt(pc) /\ hiddenMark = prompts

\* a hidden prompt resolves to undefined
ResolvedUndefined ==
  /\ Len(noValue') = Len(noValue) + 1
  /\ pc = "namespace" => nsInput' = None
  /\ (pc = "headerFolder" /\ rev = "p0") => headerSubfolder' = None

\* the command is triggered: the running invocation, if any, stays
\* suspended at its await and the handler runs up to its first await
Trigger ==
  /\ suspended = <<>>
  /\ invocations < MaxOverlap
  /\ Start
  /\ suspended' = IF pc = "idle" THEN <<>> ELSE <<Context>>
  /\ hiddenMark' = None
  /\ turnStart' = <<>>
  /\ UNCHANGED <<rev, workspaceFolders, files, created>>

\* the await of the waiting invocation settles first: the two invocations
\* change places (a finished invocation just leaves); a prompt shown in the
\* meantime has hidden the prompt the waiting invocation had open
Resume ==
  /\ suspended # <<>>
  /\ LET c == suspended[1] IN
     /\ Restore(c)
     /\ hiddenMark' = IF prompts # turnStart /\ IsPrompt(c.pc)
                      THEN c.prompts ELSE c.hiddenMark
     /\ turnStart' = c.prompts
  /\ suspended' = IF pc = "idle" THEN <<>> ELSE <<Context>>
  /\ UNCHANGED <<rev, workspaceFolders, files, created, invocations>>

\* the answers given while invocations overlap: the workspace folder
\* itself as base folder, one namespace, the default subfolders
OverlapAnswers ==
  /\ baseFolder' \in {None, RootA.uri}
  /\ nsInput' \in {None, <<"a", ":", ":", "b">>}
  /\ headerSubfolder' \in {None, <<"include">>}
  /\ sourceSubfolder' \in {None, <<"src">>}

\* a step of the invocation that has the event loop
Continue ==
  /\ pc # "idle"
  /\ Next
  /\ OverlapAnswers
  /\ Hidden => ResolvedUndefined

NextConcurrent == Trigger \/ Resume \/ Continue

\* one workspace folder, no COPYRIGHT.txt yet
InitConcurrent == Init /\ workspaceFolders = <<RootA>> /\ files = NoFiles

SpecConcurrent == InitConcurrent /\ [][NextConcurrent]_vars

\* The rendering claims are checked on every namespace string up to
\* MaxNsLen: the command is suspended at the namespace prompt, the class
\* name "Foo" entered and the notice read from an existing COPYRIGHT.txt.
AtNamespacePrompt ==
  /\ workspaceFolders = <<RootA>>
  /\ files = JoinPath(RootA.uri, <<COPYRIGHT_TXT>>) :> Utf8Encode(CustomNotice)
  /\ created = NoFiles
  /\ pc = "namespace"
  /\ invocations = 1
  /\ root = (IF rev = "ext" THEN RootA.uri ELSE None)
  /\ chosen = (IF rev = "ext"
               THEN [root |-> RootA.uri, entry |-> RootA.uri] ELSE NoChoice)
  /\ items = (IF rev = "ext" THEN SubFolderItems(RootA.uri) ELSE <<>>)
  /\ baseFolder = RootA.uri
  /\ copyrightUri = JoinPath(RootA.uri, <<COPYRIGHT_TXT>>)
  /\ author = None /\ projectName = None
  /\ copyrightNotice = CustomNotice
  /\ className = <<"Foo">> /\ nsInput = None
  /\ openNamespaces = <<>> /\ closeNamespaces = <<>>
  /\ placementOption = "" /\ headerSubfolder = None /\ sourceSubfolder = None
  /\ includeDirective = None /\ headerContent = None /\ sourceContent = None
  /\ headerUri = None /\ sourceUri = None
  /\ prompts = (IF rev = "ext" THEN <<"subFolder">> ELSE <<>>)
                 \o <<"className", "namespace">>
  /\ noValue = <<>> /\ writes = <<>> /\ messages = <<>>
  /\ fault = "none"
  /\ NoOtherInvocation

InitRender == rev \in {"ext", "p0"} /\ AtNamespacePrompt

NamespaceInputAny == NamespaceInputFrom(NsStrings \cup {None})

NextRender ==
  \/ NamespaceInputAny
  \/ PlacementPick
  \/ HeaderFolderInput
  \/ SourceFolderInput
  \/ SameFolderInput

SpecRender == InitRender /\ [][NextRender]_vars

\* the state SpecRender starts in is a state of the command
AtNamespacePromptReached == AtNamespacePrompt

\* ------------------------------------------------------------------ claims
Last(seq) == seq[Len(seq)]
Range(seq) == {seq[i] : i \in 1..Len(seq)}

\* the prompts whose no-value answer the code answers with a return or a
\* throw
Terminating ==
  {"workspaceFolder", "subFolder", "author", "projectName", "className",
   "placement"} \cup
  (IF rev = "ext" THEN {"headerFolder", "sourceFolder"} ELSE {})

\* the prompts answered before getOrCreateCopyrightNotice can write
BeforeCopyrightWrite == {"workspaceFolder", "subFolder", "author", "projectName"}

\* C1 (as stated): an invocation in which some prompt returned no value
\* performs no file write at all.
C1_NoValueNoWrite == noValue # <<>> => writes = <<>>

\* C1 (amended): an invocation in which a prompt that ends the command
\* returned no value writes neither the header nor the source; the only file
\* it can have written is COPYRIGHT.txt, and not even that when the prompt
\* was a folder picker, the author or the project name.
C1_NoValueNoClassFiles ==
  /\ Range(noValue) \cap Terminating # {} =>
       /\ \A i \in 1..Len(writes) : writes[i].uri = copyrightUri
       /\ Len(writes) <= 1
       /\ headerUri = None /\ sourceUri = None
  /\ Range(noValue) \cap BeforeCopyrightWrite # {} => writes = <<>>

\* C1 witness: the class name prompt was dismissed after COPYRIGHT.txt had
\* been created by the same invocation.
C1_Witness ==
  /\ pc = "idle" /\ noValue = <<"className">>
  /\ Len(writes) = 1 /\ writes[1].ok /\ copyrightUri \in DOMAIN files

\* C2 (as stated): the step in which any prompt returns no value ends the
\* command.
C2_NoValueTerminates ==
  [][Len(noValue') > Len(noValue) => pc' = "idle"]_vars

\* C2 (amended): the step in which a folder picker, the author, project
\* name, class name or placement prompt (in extension.ts also the header or
\* source subfolder input) returns no value ends the command: no further
\* prompt, no write, and the Write stage is never entered by an invocation
\* that saw such an answer.
C2_RequiredNoValueTerminates ==
  /\ [][(Len(noValue') > Len(noValue) /\ Last(noValue') \in Terminating) =>
          (pc' = "idle" /\ prompts' = prompts /\ writes' = writes)]_vars
  /\ [](pc \in {"writeHeader", "writeSource"} =>
          Range(noValue) \cap Terminating = {})

\* C2 witness: the placement pick was dismissed and the command is idle
\* with the placement pick as its last prompt.
C2_Witness ==
  /\ pc = "idle" /\ noValue # <<>> /\ Last(noValue) = "placement"
  /\ Last(prompts) = "placement" /\ headerUri = None

Attempted(uri) == \E i \in 1..Len(writes) : writes[i].uri = uri
Failed(uri) == \E i \in 1..Len(writes) : writes[i].uri = uri /\ ~writes[i].ok
Succeeded(uri) == \E i \in 1..Len(writes) : writes[i].uri = uri /\ writes[i].ok
ErrorCount == Len(SelectSeq(messages, LAMBDA m : m.kind = "error"))
WriteErrorCount ==
  Len(SelectSeq(messages, LAMBDA m : m = ErrorMessage("Error creating files")))

\* C3 (as stated): when the write of one of the two generated files has
\* failed, the failure is reported and the other file's write was attempted.
C3_WritesIndependent ==
  (pc = "idle" /\ headerUri # None /\ (Failed(headerUri) \/ Failed(sourceUri)))
    => (WriteErrorCount = 1 /\ Attempted(headerUri) /\ Attempted(sourceUri))

\* C3 (amended): the two writes run in sequence in one try block: a failed
\* write is reported by one error message, the source write is attempted
\* exactly when the header write succeeded, and a failed source write leaves
\* the header written.
C3_WritesSequential ==
  (pc = "idle" /\ headerUri # None) =>
    /\ Attempted(headerUri)
    /\ Attempted(sourceUri) <=> Succeeded(headerUri)
    /\ (Failed(headerUri) \/ Failed(sourceUri)) <=> WriteErrorCount = 1
    /\ Failed(sourceUri) => Succeeded(headerUri)

\* C3 witness: the header write failed, so the source write was skipped.
C3_Witness ==
  /\ pc = "idle" /\ headerUri # None
  /\ Failed(headerUri) /\ ~Attempted(sourceUri) /\ WriteErrorCount = 1

\* C4: an invocation that ended in an error has shown exactly one error
\* message.
C4_OneErrorMessage == (pc = "idle" /\ fault # "none") => ErrorCount = 1

\* C5: once COPYRIGHT.txt exists in a directory no step changes its content
\* or writes it again.
C5_CopyrightStable ==
  [][/\ \A u \in DOMAIN files : u \in DOMAIN files' /\ files'[u] = files[u]
     /\ (Len(writes') > Len(writes) /\ Last(writes').ok) =>
          Last(writes').uri \notin DOMAIN files]_vars

\* a step in which getOrCreateCopyrightNotice returns a notice
NoticeReturned == pc \in {"readFile", "writeCopyright"} /\ pc' = "className"

\* C6: the call that creates COPYRIGHT.txt returns exactly the text it
\* persisted, and every later call on that directory returns that same text.
C6_CreatedNoticeReturnedAgain ==
  [][NoticeReturned =>
       /\ copyrightUri \notin DOMAIN files =>
            /\ copyrightNotice' = Utf8Decode(files'[copyrightUri])
            /\ copyrightNotice' = Notice(author, projectName)
       /\ copyrightUri \in DOMAIN created =>
            copyrightNotice' = created[copyrightUri]]_vars

\* C7: the step in which the author or the project name comes back empty or
\* cancelled makes getOrCreateCopyrightNotice throw without any write:
\* COPYRIGHT.txt is as before (still absent when it was absent), and after a
\* missing author the project name prompt has not been shown.
C7_MissingInputNoWrite ==
  [][(Len(noValue') > Len(noValue) /\ Last(noValue') \in {"author", "projectName"})
       => /\ pc' = "idle"
          /\ fault' = (IF Last(noValue') = "author" THEN "MissingAuthor"
                       ELSE "MissingProjectName")
          /\ files' = files
          /\ writes' = <<>>
          /\ Last(noValue') = "author" => "projectName" \notin Range(prompts')]_vars

\* C7 witness: COPYRIGHT.txt was absent, the author was given and the
\* project name was not; the command is idle and the file is still absent.
C7_Witness ==
  /\ pc = "idle" /\ fault = "MissingProjectName" /\ author = <<"Jane">>
  /\ copyrightUri \notin DOMAIN files /\ writes = <<>>

\* the index of the first and the last atom of s that is not a space
FirstNonSpace(s) ==
  IF \E i \in 1..Len(s) : s[i] # " "
  THEN CHOOSE i \in 1..Len(s) : s[i] # " " /\ \A j \in 1..(i - 1) : s[j] = " "
  ELSE Len(s) + 1
LastNonSpace(s) ==
  IF \E i \in 1..Len(s) : s[i] # " "
  THEN CHOOSE i \in 1..Len(s) :
         s[i] # " " /\ \A j \in (i + 1)..Len(s) : s[j] = " "
  ELSE 0

\* the segments of a namespace input as the claim describes them: split on
\* "::" scanning from the left, trimmed, the empty ones dropped
RECURSIVE ScanSegments(_, _, _)
ScanSegments(s, i, cur) ==
  IF i > Len(s) THEN <<cur>>
  ELSE IF i < Len(s) /\ s[i] = ":" /\ s[i + 1] = ":"
       THEN <<cur>> \o ScanSegments(s, i + 2, <<>>)
       ELSE ScanSegments(s, i + 1, Append(cur, s[i]))

Segments(input) ==
  IF input = None THEN <<>>
  ELSE LET raw == ScanSegments(input, 1, <<>>)
           trimmed == [k \in 1..Len(raw) |->
                         SubSeq(raw[k], FirstNonSpace(raw[k]), LastNonSpace(raw[k]))]
       IN SelectSeq(trimmed, LAMBDA t : t # <<>>)

Lines(content) == Split(content, <<"\n">>)

IsNamespaceOpen(line) ==
  Len(line) >= 2 /\ line[1] = "namespace " /\ line[Len(line)] = " {"

\* the names of the namespace blocks a rendered file opens, in order
NamespaceOpens(content) ==
  LET opens == SelectSeq(Lines(content), IsNamespaceOpen)
  IN [k \in 1..Len(opens) |-> SubSeq(opens[k], 2, Len(opens[k]) - 1)]

\* the number of "}" lines a rendered file ends with
RECURSIVE TrailingBraces(_)
TrailingBraces(lines) ==
  IF lines # <<>> /\ Last(lines) = <<"}">>
  THEN 1 + TrailingBraces(SubSeq(lines, 1, Len(lines) - 1))
  ELSE 0

NamespaceCloses(content) ==
  LET lines == Lines(content)
  IN IF lines # <<>> /\ Last(lines) = <<>>
     THEN TrailingBraces(SubSeq(lines, 1, Len(lines) - 1))
     ELSE TrailingBraces(lines)

\* C8: the rendered header and source open one namespace block per
\* non-empty trimmed segment of the input, in input order, and end with as
\* many closing braces; with no segment they open and close none.
C8_NamespaceBlocks ==
  headerContent # None =>
    /\ NamespaceOpens(headerContent) = Segments(nsInput)
    /\ NamespaceOpens(sourceContent) = Segments(nsInput)
    /\ NamespaceCloses(headerContent) = Len(Segments(nsInput))
    /\ NamespaceCloses(sourceContent) = Len(Segments(nsInput))

\* C8 witness: the input "a::b" rendered into two nested blocks.
C8_Witness ==
  /\ headerContent # None
  /\ nsInput = <<"a", ":", ":", "b">>
  /\ NamespaceOpens(sourceContent) = << <<"a">>, <<"b">> >>
  /\ NamespaceCloses(headerContent) = 2

\* C9: header subfolder "include", source subfolder "src", class "Foo" in
\* split placement give `#include "Foo.hpp"` or
\* `#include "../include/Foo.hpp"`.
C9_SplitIncludeDirective ==
  (/\ includeDirective # None
   /\ placementOption = SeparateFoldersLabel(rev)
   /\ headerSubfolder = <<"include">> /\ sourceSubfolder = <<"src">>
   /\ className = <<"Foo">>)
  => includeDirective \in
       { <<"#include \"", "Foo", ".hpp\"">>,
         <<"#include \"", "..", "/", "include", "/", "Foo", ".hpp\"">> }

\* C10: the COPYRIGHT.txt the command reads or creates lies directly in a
\* workspace root folder.
C10_CopyrightAtWorkspaceRoot ==
  LET rootFiles == {JoinPath(workspaceFolders[i].uri, <<COPYRIGHT_TXT>>) :
                      i \in 1..Len(workspaceFolders)}
  IN /\ copyrightUri # None => copyrightUri \in rootFiles
     /\ \A i \in 1..Len(writes) :
          Last(writes[i].uri) = COPYRIGHT_TXT => writes[i].uri \in rootFiles

\* the immediate subdirectories of a folder, as readDirectory reports them
SubdirectoriesOf(r) ==
  {JoinPath(r, <<DirEntries(r)[k].name>>) :
     k \in {j \in 1..Len(DirEntries(r)) : DirEntries(r)[j].type = "Directory"}}

\* C11: the folder selectBaseFolder returns is the entry the user selected:
\* the root the user chose for the sentinel, else that subdirectory of the
\* root the user chose, also when roots or entries show the same name.
C11_SelectedFolderReturned ==
  (rev = "ext" /\ baseFolder # None) =>
    /\ root = chosen.root
    /\ baseFolder = chosen.entry
    /\ baseFolder = chosen.root \/ baseFolder \in SubdirectoriesOf(chosen.root)

\* C12: invocations are strictly serialized: no invocation is waiting at an
\* await while another one is in progress.
C12_Serialized == suspended = <<>>

\* C13: an invocation that reached the Write stage shows no message until
\* the stage is over and then exactly one: "Created" when both writes
\* succeeded, "Error creating files" otherwise; the source write is never
\* issued before the header write.
C13_OneFinalMessage ==
  headerUri # None =>
    /\ pc # "idle" => messages = <<>>
    /\ pc = "idle" =>
         /\ Len(messages) = 1
         /\ messages[1] = InformationMessage("Created") <=>
              (Succeeded(headerUri) /\ Succeeded(sourceUri))
         /\ messages[1] # InformationMessage("Created") =>
              messages[1] = ErrorMessage("Error creating files")
    /\ \A i \in 1..Len(writes) :
         writes[i].uri = sourceUri =>
           \E j \in 1..(i - 1) : writes[j].uri = headerUri

\* C13 witness: both writes succeeded, header first, and "Created" is the
\* only message.
C13_Witness ==
  /\ pc = "idle" /\ headerUri # None
  /\ Succeeded(headerUri) /\ Succeeded(sourceUri)
  /\ messages = <<InformationMessage("Created")>>
  /\ Last(writes).uri = sourceUri
====
